---- MODULE Spec2Model ----
(***************************************************************************)
(* Task store and rule engine of app/main.py: the in-memory tasks_db, the  *)
(* derivation rules applied on create/update and the six request handlers. *)
(*                                                                         *)
(* A handler is a sequence of steps, one per access to what lives outside  *)
(* it: the dict tasks_db, the dicts stored in it (list writes their        *)
(* is_overdue in place) and the clock.  The request body is parsed (and    *)
(* its due_date validated) before the handler body runs, and every         *)
(* datetime.now() is a separate reading of the clock, which moves between  *)
(* any two steps.  A step does what its line does whatever the store      *)
(* holds when it runs.  The module itself does nothing to order requests;  *)
(* the specifications take one request at a time, as spec.md sections 1    *)
(* and 5 assume (RequestAtATime).                                          *)
(*                                                                         *)
(* Clock readings are integers; a day is 24 units.  Hours are integers.    *)
(* None is NoneS for string fields and NONE for numeric fields; a patch    *)
(* field the request body does not carry is UnsetS/UNSET.                  *)
(***************************************************************************)
EXTENDS Integers, Sequences, FiniteSets, Bags, TLC

VARIABLES tasks_db, detached, dk_entries, dk_usable, python, next_id, now, req

vars == <<tasks_db, detached, dk_entries, dk_usable, python, next_id, now, req>>

\* ---------------------------------------------------------------- bounds
\* per specification: how many tasks are ever created, how far the clock
\* runs
StoreTasks == 2
StoreTime == 1
ListTasks == 2
ListTime == 1
RulesTasks == 1
RulesTime == 1
GuardTasks == 1
GuardTime == 1
FrameTasks == 2
FrameTime == 1
ClockTasks == 1
ClockTime == 2
UrgentTasks == 1
UrgentTime == 1

\* ------------------------------------------------------- program constants
NONE == -1
UNSET == -2
NoneS == "None"
UnsetS == "<unset>"
Day == 24
DefaultHours == 1

PENDING == "pending"
IN_PROGRESS == "in_progress"
COMPLETED == "completed"
CANCELLED == "cancelled"
TaskStatus == {PENDING, IN_PROGRESS, COMPLETED, CANCELLED}

LOW == "low"
MEDIUM == "medium"
HIGH == "high"
URGENT == "urgent"
TaskPriority == {LOW, MEDIUM, HIGH, URGENT}

\* ------------------------------------------------------- python primitives
\* `not x` on an Optional[float]: None and 0 are both falsy.
Falsy(x) == x = NONE \/ x = 0

\* dict.get(key, default): the default is used only when the key is missing.
DictGet(d, key, default) == IF key \in DOMAIN d THEN d[key] ELSE default

\* Task(**task_data): title, priority and status do not accept None.
TaskValid(t) == t.title # NoneS /\ t.priority # NoneS /\ t.status # NoneS

\* ---------------------------------------------------- the dict tasks_db
\* tasks_db maps a key to its record.  dk_entries is the dict's entry
\* array: keys in insertion order, 0 where an entry was deleted; dk_usable
\* is the number of entries the table can still take before it is rebuilt.
\* The table a new dict starts with, how large a rebuilt table is and what
\* next() checks depend on the interpreter: `python` is the family of the
\* build that runs the module.  "3.6" is CPython 3.6, "3.7" is 3.7, "3.9"
\* is 3.8, 3.9 and 3.13.1 on, "3.11" is 3.10 to 3.13.0.
Builds == {"3.6", "3.7", "3.9", "3.11"}

PyDict_MINSIZE == 8

USABLE_FRACTION(n) == (2 * n) \div 3

Used == Cardinality(DOMAIN tasks_db)

LiveEntries == SelectSeq(dk_entries, LAMBDA k : k # 0)

\* the smallest table, doubling from size, with room for n entries
RECURSIVE TableOf(_, _)
TableOf(size, n) ==
    IF USABLE_FRACTION(size) >= n THEN size ELSE TableOf(2 * size, n)

\* the number of slots of the table: its entries, used or still usable, are
\* USABLE_FRACTION of them; the table of an empty dict that has none is the
\* shared one-slot table
dk_size == TableOf(1, dk_usable + Len(dk_entries))

\* used*2 + size/2 on 3.6, used*3 since 3.7
GROWTH_RATE ==
    IF python = "3.6" THEN Used * 2 + dk_size \div 2 ELSE Used * 3

\* {}: 3.6 and 3.7 allocate a table of PyDict_MINSIZE slots, later builds
\* start on the shared empty table
NewDictUsable ==
    IF python \in {"3.6", "3.7"} THEN USABLE_FRACTION(PyDict_MINSIZE) ELSE 0

\* the smallest table, doubling from size, that is at least minsize
RECURSIVE SizeFrom(_, _)
SizeFrom(size, minsize) ==
    IF size >= minsize THEN size ELSE SizeFrom(2 * size, minsize)

\* 1 << bit_length(((minsize | 8) - 1) | 7)
calculate_log2_keysize(minsize) ==
    LET m == IF (minsize \div PyDict_MINSIZE) % 2 = 1
             THEN minsize ELSE minsize + PyDict_MINSIZE
        x == ((m - 1) \div PyDict_MINSIZE) * PyDict_MINSIZE + (PyDict_MINSIZE - 1)
    IN  SizeFrom(PyDict_MINSIZE, x + 1)

KeySize(minsize) ==
    IF python = "3.11"
    THEN calculate_log2_keysize(minsize)
    ELSE SizeFrom(PyDict_MINSIZE, minsize)

\* storing under a key: an existing key keeps its entry; a new key is
\* appended, after the table is rebuilt when it has no usable entry left.
DictSet(k, v) ==
    /\ tasks_db' = (k :> v) @@ tasks_db
    /\ IF k \in DOMAIN tasks_db
       THEN UNCHANGED <<dk_entries, dk_usable>>
       ELSE IF dk_usable > 0
       THEN /\ dk_entries' = Append(dk_entries, k)
            /\ dk_usable' = dk_usable - 1
       ELSE /\ dk_entries' = Append(LiveEntries, k)
            /\ dk_usable' = USABLE_FRACTION(KeySize(GROWTH_RATE)) - Used - 1

\* del tasks_db[k]: the entry becomes a hole
DictDel(k) ==
    /\ tasks_db' = [x \in DOMAIN tasks_db \ {k} |-> tasks_db[x]]
    /\ dk_entries' = [i \in 1..Len(dk_entries) |->
                         IF dk_entries[i] = k THEN 0 ELSE dk_entries[i]]
    /\ UNCHANGED dk_usable

\* tasks_db.clear(): a fresh empty table
DictClear ==
    /\ tasks_db' = <<>>
    /\ dk_entries' = <<>>
    /\ dk_usable' = 0

\* iter(tasks_db.values()): position in the entry array, the size the dict
\* had when the iterator was made, and the number of items still expected
NoIter == [pos |-> 0, used |-> 0, len |-> 0]

DictIter == [pos |-> 0, used |-> Used, len |-> Used]

\* next(): RuntimeError when the dict changed size or, since 3.8, when a
\* key turned up that was not expected; StopIteration at the end of the
\* entry array
DictNext(it) ==
    LET live == {i \in (it.pos + 1)..Len(dk_entries) : dk_entries[i] # 0}
        i == CHOOSE x \in live : \A y \in live : x <= y
    IN  IF Used # it.used THEN [kind |-> "error", key |-> 0, it |-> NoIter]
        ELSE IF live = {} THEN [kind |-> "stop", key |-> 0, it |-> NoIter]
        ELSE IF python \notin {"3.6", "3.7"} /\ it.len = 0
        THEN [kind |-> "error", key |-> 0, it |-> NoIter]
        ELSE [kind |-> "item", key |-> dk_entries[i],
              it |-> [pos |-> i, used |-> it.used, len |-> it.len - 1]]

\* ------------------------------------------------------------ rule engine
\* due_date validators of TaskCreate and TaskUpdate: a supplied date must be
\* strictly in the future; None (and an unset field) passes.
due_date_must_be_future(v) == v \in {NONE, UNSET} \/ v > now

\* line 65: whether line 66 reads the clock
OverdueReadsClock(task_data) ==
    task_data.due_date # NONE /\ task_data.status # COMPLETED

calculate_overdue_status(task_data) ==
    IF OverdueReadsClock(task_data)
    THEN now > task_data.due_date
    ELSE FALSE

FillActualHours(task_data) ==
    IF task_data.status = COMPLETED /\ Falsy(task_data.actual_hours)
    THEN [task_data EXCEPT !.actual_hours = DictGet(task_data, "estimated_hours", DefaultHours)]
    ELSE task_data

\* line 73: whether line 74 reads the clock
NeedsDueDate(task_data) ==
    task_data.priority = URGENT /\ task_data.due_date = NONE

\* a rule engine that forgets the urgent due date
FillDueDateSkipped(task_data) == task_data

FillDueDate(task_data) ==
    IF NeedsDueDate(task_data)
    THEN [task_data EXCEPT !.due_date = now + Day]
    ELSE task_data

\* line 77
Stamp(task_data) == [task_data EXCEPT !.updated_at = now]

\* ---------------------------------------------------------------- requests
\* req is the bag of requests in flight.  A request is a record: the
\* endpoint (op), the handler's position (pc: the line it runs next) and
\* locals, and the response once the handler has ended; t0 and before are
\* the clock and the store when the request came in.
\*
\* task_data is a dict only this handler can reach.  ref is a dict that
\* can be reached from outside the handler: ref > 0 is the dict stored in
\* tasks_db under that key, ref < 0 is a dict that has left tasks_db since
\* the handler got hold of it (detached[-ref]), ref = 0 is none.
NoInput == [kind |-> "none"]
NoData == [kind |-> "none"]

Start(op, pc, id, input) ==
    [op |-> op, pc |-> pc, t0 |-> now, before |-> tasks_db, id |-> id, input |-> input,
     task_data |-> NoData, ref |-> 0, flag |-> FALSE,
     it |-> NoIter, filtered_tasks |-> <<>>,
     code |-> 0, out |-> <<>>, count |-> 0]

InFlight == BagToSet(req)

At(r, op, pc) == r.op = op /\ r.pc = pc

\* a request comes in
Accept(r) ==
    /\ req' = req (+) SetToBag({r})
    /\ UNCHANGED <<tasks_db, detached, dk_entries, dk_usable, python, next_id, now>>

\* the dict behind a reference
Object(ref) == IF ref > 0 THEN tasks_db[ref] ELSE detached[-ref]

\* the keys among K whose dict some handler holds
Held(K) == {k \in K : \E x \in InFlight : x.ref = k}

\* the i-th number that names no detached dict yet
FreeTag(i) ==
    CHOOSE n \in 1..(Cardinality(DOMAIN detached) + i) :
        /\ n \notin DOMAIN detached
        /\ Cardinality({m \in 1..n : m \notin DOMAIN detached}) = i

TagOf(K, k) == FreeTag(Cardinality({j \in Held(K) : j <= k}))

\* the dicts under the keys K leave tasks_db: the handlers that hold one
\* keep it, and it lives on outside the store
Unlinked(K) ==
    LET f(x) == IF x.ref \in Held(K) THEN [x EXCEPT !.ref = -TagOf(K, x.ref)] ELSE x
    IN  [y \in {f(x) : x \in InFlight} |-> req[CHOOSE x \in InFlight : f(x) = y]]

Kept(K) ==
    [n \in DOMAIN detached \cup {TagOf(K, k) : k \in Held(K)} |->
        IF n \in DOMAIN detached THEN detached[n]
        ELSE tasks_db[CHOOSE k \in Held(K) : TagOf(K, k) = n]]

\* request r replaced by r2 in bag b
Swap(b, r, r2) == (b (-) SetToBag({r})) (+) SetToBag({r2})

\* a dict no handler holds any more is gone
Collect(d, b) ==
    [n \in {m \in DOMAIN d : \E x \in BagToSet(b) : x.ref = -m} |-> d[n]]

\* the handler of request r moves on, while the dicts under K leave tasks_db
Leave(K, r, r2) ==
    LET b == Swap(Unlinked(K), r, r2)
    IN  /\ req' = b
        /\ detached' = Collect(Kept(K), b)

\* the handler of request r moves on
Goto(r, r2) == Leave({}, r, r2)

\* task['is_overdue'] = v on a shared dict, and the handler moves on
SetOverdue(ref, v, r, r2) ==
    LET b == Swap(req, r, r2)
    IN  /\ req' = b
        /\ IF ref > 0
           THEN /\ tasks_db' = [tasks_db EXCEPT ![ref].is_overdue = v]
                /\ detached' = Collect(detached, b)
           ELSE /\ detached' = Collect([detached EXCEPT ![-ref].is_overdue = v], b)
                /\ UNCHANGED tasks_db

\* the handler ends: the locals are dropped, the response is kept
Response(r, code, id, out, count) ==
    [r EXCEPT !.pc = "done", !.id = id, !.task_data = NoData, !.ref = 0,
              !.flag = FALSE, !.it = NoIter, !.filtered_tasks = <<>>,
              !.code = code, !.out = out, !.count = count]

\* the response is sent
Respond(r) ==
    /\ r.pc = "done"
    /\ req' = req (-) SetToBag({r})
    /\ UNCHANGED <<tasks_db, detached, dk_entries, dk_usable, python, next_id, now>>

\* ------------------------------------------------- rule engine, as steps
\* apply_business_rules reads the clock up to three times (lines 74, 66,
\* 77) on a dict only the handler can reach.  The handler moves to the next
\* line that reads the clock; the lines in between are local.
AfterDueDate(r, task_data) ==
    IF OverdueReadsClock(task_data)
    THEN [r EXCEPT !.pc = "line66", !.ref = 0, !.task_data = task_data]
    ELSE [r EXCEPT !.pc = "line77", !.ref = 0,
                   !.task_data = [task_data EXCEPT
                                     !.is_overdue = calculate_overdue_status(task_data)]]

\* lines 70-73
EnterRules(r, task_data) ==
    LET a == FillActualHours(task_data)
    IN  IF NeedsDueDate(a)
        THEN [r EXCEPT !.pc = "line74", !.ref = 0, !.task_data = a]
        ELSE AfterDueDate(r, a)

\* line 74
rules_due_date(r) ==
    /\ r.op \in {"create", "update"} /\ r.pc = "line74"
    /\ Goto(r, AfterDueDate(r, FillDueDate(r.task_data)))
    /\ UNCHANGED <<tasks_db, dk_entries, dk_usable, python, next_id, now>>

\* line 66, called from line 76
rules_overdue(r) ==
    /\ r.op \in {"create", "update"} /\ r.pc = "line66"
    /\ Goto(r, [r EXCEPT !.pc = "line77",
                         !.task_data = [r.task_data EXCEPT
                                           !.is_overdue = calculate_overdue_status(r.task_data)]])
    /\ UNCHANGED <<tasks_db, dk_entries, dk_usable, python, next_id, now>>

\* line 77, and back in the handler
rules_stamp(r) ==
    /\ r.op \in {"create", "update"} /\ r.pc = "line77"
    /\ Goto(r, [r EXCEPT !.pc = IF r.op = "create" THEN "line95" ELSE "line149",
                         !.task_data = Stamp(r.task_data)])
    /\ UNCHANGED <<tasks_db, dk_entries, dk_usable, python, next_id, now>>

apply_business_rules(r) == rules_due_date(r) \/ rules_overdue(r) \/ rules_stamp(r)

\* ------------------------------------------------------------------ create
\* TaskCreate: priority defaults to medium when the body does not carry it.
TaskCreate(input) ==
    [input EXCEPT !.priority = IF input.priority = UnsetS THEN MEDIUM ELSE input.priority]

\* lines 84-92.  The uuid of line 83 is only ever compared for equality;
\* the model numbers a task when it is stored.
NewTaskData(task, created_at, updated_at) ==
    [id |-> 0,
     title |-> task.title,
     description |-> task.description,
     priority |-> task.priority,
     estimated_hours |-> task.estimated_hours,
     due_date |-> task.due_date,
     status |-> PENDING,
     created_at |-> created_at,
     updated_at |-> updated_at,
     actual_hours |-> NONE,
     is_overdue |-> FALSE]

\* the body is parsed into a TaskCreate: line 32
create_task_parse(input) ==
    IF due_date_must_be_future(input.due_date)
    THEN Accept(Start("create", "line88", 0, input))
    ELSE Accept(Response(Start("create", "line88", 0, input), 422, 0, <<>>, 0))

\* line 88: the first reading of the clock, for the dict being built
create_task_created_at(r) ==
    /\ At(r, "create", "line88")
    /\ Goto(r, [r EXCEPT !.pc = "line89",
                         !.task_data = [kind |-> "building", created_at |-> now]])
    /\ UNCHANGED <<tasks_db, dk_entries, dk_usable, python, next_id, now>>

\* line 89: the second reading; lines 90-94 up to the rule engine's first
\* reading of the clock
create_task_updated_at(r) ==
    /\ At(r, "create", "line89")
    /\ Goto(r, EnterRules(r, NewTaskData(TaskCreate(r.input), r.task_data.created_at, now)))
    /\ UNCHANGED <<tasks_db, dk_entries, dk_usable, python, next_id, now>>

\* line 95: the dict is stored, and from now on shared
create_task_store(r) ==
    /\ At(r, "create", "line95")
    /\ LET task_id == next_id
       IN  /\ DictSet(task_id, [r.task_data EXCEPT !.id = task_id])
           /\ next_id' = next_id + 1
           /\ Goto(r, [r EXCEPT !.pc = "line96", !.id = task_id,
                                !.ref = task_id, !.task_data = NoData])
    /\ UNCHANGED <<python, now>>

\* line 96: the response is built from the dict as it is now
create_task_return(r) ==
    /\ At(r, "create", "line96")
    /\ Goto(r, Response(r, 201, r.id, <<Object(r.ref)>>, 0))
    /\ UNCHANGED <<tasks_db, dk_entries, dk_usable, python, next_id, now>>

create_task(r) ==
    \/ create_task_created_at(r)
    \/ create_task_updated_at(r)
    \/ create_task_store(r)
    \/ create_task_return(r)

\* -------------------------------------------------------------------- list
\* lines 110-113
PassesFilters(t, f) ==
    /\ ~(f.status # NoneS /\ t.status # f.status)
    /\ ~(f.priority # NoneS /\ t.priority # f.priority)

\* sort key of line 119: (priority == URGENT, created_at), compared as a tuple.
KeyLess(a, b) ==
    LET ua == IF a.priority = URGENT THEN 1 ELSE 0
        ub == IF b.priority = URGENT THEN 1 ELSE 0
    IN  ua < ub \/ (ua = ub /\ a.created_at < b.created_at)

\* stable sort, reverse=True: descending by key, equal keys keep their order.
RECURSIVE SortDesc(_)
InsertDesc(x, s) ==
    LET n == Cardinality({i \in 1..Len(s) : ~KeyLess(s[i], x)})
    IN  SubSeq(s, 1, n) \o <<x>> \o SubSeq(s, n + 1, Len(s))

SortDesc(s) ==
    IF s = <<>> THEN <<>>
    ELSE InsertDesc(s[Len(s)], SortDesc(SubSeq(s, 1, Len(s) - 1)))

Truncate(s, limit) == SubSeq(s, 1, IF limit < Len(s) THEN limit ELSE Len(s))

read_all_tasks_start(f) == Accept(Start("list", "line107", 0, f))

\* line 107: the iterator over tasks_db.values() is made
read_all_tasks_iter(r) ==
    /\ At(r, "list", "line107")
    /\ Goto(r, [r EXCEPT !.pc = "line107next", !.it = DictIter])
    /\ UNCHANGED <<tasks_db, dk_entries, dk_usable, python, next_id, now>>

\* line 107: the next dict of the store, or lines 119-120 when there is
\* none; line 65 on the dict found
read_all_tasks_next(r) ==
    /\ At(r, "list", "line107next")
    /\ LET n == DictNext(r.it)
       IN  IF n.kind = "error"
           THEN Goto(r, Response(r, 500, 0, <<>>, 0))
           ELSE IF n.kind = "stop"
           THEN Goto(r, Response(r, 200, 0,
                                 Truncate(SortDesc(r.filtered_tasks), r.input.limit), 0))
           ELSE Goto(r, [r EXCEPT !.it = n.it, !.ref = n.key, !.flag = FALSE,
                                  !.pc = IF OverdueReadsClock(tasks_db[n.key])
                                         THEN "line66" ELSE "line108"])
    /\ UNCHANGED <<tasks_db, dk_entries, dk_usable, python, next_id, now>>

\* line 66, called from line 108
read_all_tasks_overdue(r) ==
    /\ At(r, "list", "line66")
    /\ Goto(r, [r EXCEPT !.pc = "line108",
                         !.flag = calculate_overdue_status(Object(r.ref))])
    /\ UNCHANGED <<tasks_db, dk_entries, dk_usable, python, next_id, now>>

\* line 108: the flag is written into the shared dict; lines 110-113
read_all_tasks_write(r) ==
    /\ At(r, "list", "line108")
    /\ SetOverdue(r.ref, r.flag, r,
           IF ~PassesFilters(Object(r.ref), r.input)
           THEN [r EXCEPT !.pc = "line107next", !.ref = 0, !.flag = FALSE]
           ELSE IF r.input.overdue_only
           THEN [r EXCEPT !.pc = "line114", !.flag = FALSE]
           ELSE [r EXCEPT !.pc = "line117", !.flag = FALSE])
    /\ UNCHANGED <<dk_entries, dk_usable, python, next_id, now>>

\* line 114: the flag is read back from the shared dict
read_all_tasks_test(r) ==
    /\ At(r, "list", "line114")
    /\ IF Object(r.ref).is_overdue
       THEN Goto(r, [r EXCEPT !.pc = "line117"])
       ELSE Goto(r, [r EXCEPT !.pc = "line107next", !.ref = 0])
    /\ UNCHANGED <<tasks_db, dk_entries, dk_usable, python, next_id, now>>

\* line 117: the Task is built from the shared dict as it is now
read_all_tasks_append(r) ==
    /\ At(r, "list", "line117")
    /\ IF TaskValid(Object(r.ref))
       THEN Goto(r, [r EXCEPT !.pc = "line107next", !.ref = 0,
                              !.filtered_tasks = Append(@, Object(r.ref))])
       ELSE Goto(r, Response(r, 500, 0, <<>>, 0))
    /\ UNCHANGED <<tasks_db, dk_entries, dk_usable, python, next_id, now>>

read_all_tasks(r) ==
    \/ read_all_tasks_iter(r)
    \/ read_all_tasks_next(r)
    \/ read_all_tasks_overdue(r)
    \/ read_all_tasks_write(r)
    \/ read_all_tasks_test(r)
    \/ read_all_tasks_append(r)

\* --------------------------------------------------------------------- get
read_task_start(task_id) == Accept(Start("get", "line124", task_id, NoInput))

\* line 124
read_task_check(r) ==
    /\ At(r, "get", "line124")
    /\ IF r.id \in DOMAIN tasks_db
       THEN Goto(r, [r EXCEPT !.pc = "line127"])
       ELSE Goto(r, Response(r, 404, r.id, <<>>, 0))
    /\ UNCHANGED <<tasks_db, dk_entries, dk_usable, python, next_id, now>>

\* line 127, tasks_db[task_id]; KeyError when the key has gone since line 124
read_task_get(r) ==
    /\ At(r, "get", "line127")
    /\ IF r.id \in DOMAIN tasks_db
       THEN Goto(r, [r EXCEPT !.pc = "line127copy", !.ref = r.id])
       ELSE Goto(r, Response(r, 500, r.id, <<>>, 0))
    /\ UNCHANGED <<tasks_db, dk_entries, dk_usable, python, next_id, now>>

\* a read path that trusts the copied flag
ReturnedStale(r, task_data, flag) ==
    IF TaskValid(task_data)
    THEN Response(r, 200, r.id, <<task_data>>, 0)
    ELSE Response(r, 500, r.id, <<>>, 0)

\* lines 128-129 once the flag is known
Returned(r, task_data, flag) ==
    IF TaskValid(task_data)
    THEN Response(r, 200, r.id, <<[task_data EXCEPT !.is_overdue = flag]>>, 0)
    ELSE Response(r, 500, r.id, <<>>, 0)

\* line 127, .copy(), and line 65 on the copy
read_task_copy(r) ==
    /\ At(r, "get", "line127copy")
    /\ LET task_data == Object(r.ref)
       IN  IF OverdueReadsClock(task_data)
           THEN Goto(r, [r EXCEPT !.pc = "line66", !.ref = 0, !.task_data = task_data])
           ELSE Goto(r, Returned(r, task_data, FALSE))
    /\ UNCHANGED <<tasks_db, dk_entries, dk_usable, python, next_id, now>>

\* line 66, called from line 128; line 129
read_task_overdue(r) ==
    /\ At(r, "get", "line66")
    /\ Goto(r, Returned(r, r.task_data, calculate_overdue_status(r.task_data)))
    /\ UNCHANGED <<tasks_db, dk_entries, dk_usable, python, next_id, now>>

read_task(r) ==
    \/ read_task_check(r)
    \/ read_task_get(r)
    \/ read_task_copy(r)
    \/ read_task_overdue(r)

\* ------------------------------------------------------------------ update
PatchFieldsS == {"title", "description", "priority", "status"}
PatchFieldsN == {"estimated_hours", "due_date", "actual_hours"}

\* an update without the guard
CompletedGuardOff(task_data, task_update) == FALSE

\* an update that checks the transition only when the patch carries a status
CompletedGuardIfSupplied(task_data, task_update) ==
    /\ task_data.status = COMPLETED
    /\ task_update.status # UnsetS
    /\ task_update.status # COMPLETED

\* line 138: a completed task only accepts a patch whose status is completed
CompletedGuard(task_data, task_update) ==
    task_data.status = COMPLETED /\ task_update.status # COMPLETED

\* lines 141-143: on the transition to completed, default the patch's
\* actual_hours; the assignment marks the field as set.
CompletionDefault(task_data, task_update) ==
    IF /\ task_update.status = COMPLETED
       /\ task_data.status # COMPLETED
       /\ Falsy(IF task_update.actual_hours = UNSET THEN NONE ELSE task_update.actual_hours)
       /\ Falsy(task_data.actual_hours)
    THEN [task_update EXCEPT
            !.actual_hours = DictGet(task_data, "estimated_hours", DefaultHours)]
    ELSE task_update

\* a merge of dict() without exclude_unset: absent numbers become None
MergeReplace(task_data, task_update) ==
    [f \in DOMAIN task_data |->
        IF f \in PatchFieldsS /\ task_update[f] # UnsetS THEN task_update[f]
        ELSE IF f \in PatchFieldsN
        THEN (IF task_update[f] # UNSET THEN task_update[f] ELSE NONE)
        ELSE task_data[f]]

\* lines 145-146: dict(exclude_unset=True) merged into the copy
Merge(task_data, task_update) ==
    [f \in DOMAIN task_data |->
        IF f \in PatchFieldsS /\ task_update[f] # UnsetS THEN task_update[f]
        ELSE IF f \in PatchFieldsN /\ task_update[f] # UNSET THEN task_update[f]
        ELSE task_data[f]]

\* the body is parsed into a TaskUpdate: line 47
update_task_parse(task_id, task_update) ==
    IF due_date_must_be_future(task_update.due_date)
    THEN Accept(Start("update", "line133", task_id, task_update))
    ELSE Accept(Response(Start("update", "line133", task_id, task_update),
                         422, task_id, <<>>, 0))

\* line 133
update_task_check(r) ==
    /\ At(r, "update", "line133")
    /\ IF r.id \in DOMAIN tasks_db
       THEN Goto(r, [r EXCEPT !.pc = "line136"])
       ELSE Goto(r, Response(r, 404, r.id, <<>>, 0))
    /\ UNCHANGED <<tasks_db, dk_entries, dk_usable, python, next_id, now>>

\* line 136, tasks_db[task_id]; KeyError when the key has gone since line 133
update_task_get(r) ==
    /\ At(r, "update", "line136")
    /\ IF r.id \in DOMAIN tasks_db
       THEN Goto(r, [r EXCEPT !.pc = "line136copy", !.ref = r.id])
       ELSE Goto(r, Response(r, 500, r.id, <<>>, 0))
    /\ UNCHANGED <<tasks_db, dk_entries, dk_usable, python, next_id, now>>

\* line 136, .copy(); lines 138-146 on the copy, and the rule engine up to
\* its first reading of the clock
update_task_copy(r) ==
    /\ At(r, "update", "line136copy")
    /\ LET task_data == Object(r.ref)
       IN  IF CompletedGuard(task_data, r.input)
           THEN Goto(r, Response(r, 400, r.id, <<>>, 0))
           ELSE Goto(r, EnterRules(r, Merge(task_data, CompletionDefault(task_data, r.input))))
    /\ UNCHANGED <<tasks_db, dk_entries, dk_usable, python, next_id, now>>

\* line 149: the copy is written back whatever the store holds now, and
\* from now on shared
update_task_store(r) ==
    /\ At(r, "update", "line149")
    /\ DictSet(r.id, r.task_data)
    /\ Leave({r.id} \cap DOMAIN tasks_db, r,
             [r EXCEPT !.pc = "line150", !.ref = r.id, !.task_data = NoData])
    /\ UNCHANGED <<python, next_id, now>>

\* line 150: the response is built from the dict as it is now
update_task_return(r) ==
    /\ At(r, "update", "line150")
    /\ IF TaskValid(Object(r.ref))
       THEN Goto(r, Response(r, 200, r.id, <<Object(r.ref)>>, 0))
       ELSE Goto(r, Response(r, 500, r.id, <<>>, 0))
    /\ UNCHANGED <<tasks_db, dk_entries, dk_usable, python, next_id, now>>

update_task(r) ==
    \/ update_task_check(r)
    \/ update_task_get(r)
    \/ update_task_copy(r)
    \/ update_task_store(r)
    \/ update_task_return(r)

\* ------------------------------------------------------------------ delete
\* a delete without the guard
DeleteBlockedNever(task) == FALSE

\* line 158
DeleteBlocked(task) == task.status = IN_PROGRESS

delete_task_start(task_id) == Accept(Start("delete", "line154", task_id, NoInput))

\* line 154
delete_task_check(r) ==
    /\ At(r, "delete", "line154")
    /\ IF r.id \in DOMAIN tasks_db
       THEN Goto(r, [r EXCEPT !.pc = "line157"])
       ELSE Goto(r, Response(r, 404, r.id, <<>>, 0))
    /\ UNCHANGED <<tasks_db, dk_entries, dk_usable, python, next_id, now>>

\* lines 157-159; KeyError when the key has gone since line 154.  The
\* status of a stored dict is never written in place, so line 158 reads
\* what line 157 found.
delete_task_read(r) ==
    /\ At(r, "delete", "line157")
    /\ IF r.id \notin DOMAIN tasks_db
       THEN Goto(r, Response(r, 500, r.id, <<>>, 0))
       ELSE IF DeleteBlocked(tasks_db[r.id])
       THEN Goto(r, Response(r, 400, r.id, <<>>, 0))
       ELSE Goto(r, [r EXCEPT !.pc = "line161"])
    /\ UNCHANGED <<tasks_db, dk_entries, dk_usable, python, next_id, now>>

\* line 161; KeyError when the key has gone since line 157
delete_task_del(r) ==
    /\ At(r, "delete", "line161")
    /\ IF r.id \in DOMAIN tasks_db
       THEN /\ DictDel(r.id)
            /\ Leave({r.id}, r, Response(r, 200, r.id, <<>>, 0))
       ELSE /\ Goto(r, Response(r, 500, r.id, <<>>, 0))
            /\ UNCHANGED <<tasks_db, dk_entries, dk_usable>>
    /\ UNCHANGED <<python, next_id, now>>

delete_task(r) == delete_task_check(r) \/ delete_task_read(r) \/ delete_task_del(r)

\* -------------------------------------------------------------- delete all
\* line 166
delete_all_tasks_start(force) ==
    Accept(Start("delete_all", IF force THEN "line174" ELSE "line167",
                 0, [force |-> force]))

\* line 167: the iterator of the generator is made
delete_all_tasks_iter(r) ==
    /\ At(r, "delete_all", "line167")
    /\ Goto(r, [r EXCEPT !.pc = "line167next", !.it = DictIter])
    /\ UNCHANGED <<tasks_db, dk_entries, dk_usable, python, next_id, now>>

\* a count that sees no task in progress
CountsNothing(task) == FALSE

\* line 167: the condition of the generator
CountsInProgress(task) == task.status = IN_PROGRESS

\* one item of the generator of line 167, or line 168 when it ends
delete_all_tasks_count(r) ==
    /\ At(r, "delete_all", "line167next")
    /\ LET n == DictNext(r.it)
       IN  IF n.kind = "error"
           THEN Goto(r, Response(r, 500, 0, <<>>, 0))
           ELSE IF n.kind = "item"
           THEN Goto(r, [r EXCEPT !.it = n.it,
                                  !.count = IF CountsInProgress(tasks_db[n.key])
                                            THEN @ + 1 ELSE @])
           ELSE IF r.count > 0
           THEN Goto(r, Response(r, 400, 0, <<>>, r.count))
           ELSE Goto(r, [r EXCEPT !.pc = "line174", !.it = NoIter])
    /\ UNCHANGED <<tasks_db, dk_entries, dk_usable, python, next_id, now>>

\* line 174
delete_all_tasks_len(r) ==
    /\ At(r, "delete_all", "line174")
    /\ Goto(r, [r EXCEPT !.pc = "line175", !.count = Used])
    /\ UNCHANGED <<tasks_db, dk_entries, dk_usable, python, next_id, now>>

\* lines 175-176
delete_all_tasks_clear(r) ==
    /\ At(r, "delete_all", "line175")
    /\ DictClear
    /\ Leave(DOMAIN tasks_db, r, Response(r, 200, 0, <<>>, r.count))
    /\ UNCHANGED <<python, next_id, now>>

delete_all_tasks(r) ==
    \/ delete_all_tasks_iter(r)
    \/ delete_all_tasks_count(r)
    \/ delete_all_tasks_len(r)
    \/ delete_all_tasks_clear(r)

\* ------------------------------------------------------------------- clock
Tick ==
    /\ now' = now + 1
    /\ UNCHANGED <<tasks_db, detached, dk_entries, dk_usable, python, next_id, req>>

\* ------------------------------------------------------------------ inputs
NoPatch ==
    [title |-> UnsetS, description |-> UnsetS, priority |-> UnsetS, status |-> UnsetS,
     estimated_hours |-> UNSET, due_date |-> UNSET, actual_hours |-> UNSET]

CreateInput(title, priority, est, due) ==
    [title |-> title, description |-> NoneS, priority |-> priority,
     estimated_hours |-> est, due_date |-> due]

Filter(status, priority, overdue_only, limit) ==
    [status |-> status, priority |-> priority, overdue_only |-> overdue_only, limit |-> limit]

\* ---------------------------------------------------------- specification
Init ==
    /\ python \in Builds
    /\ tasks_db = <<>>
    /\ detached = <<>>
    /\ dk_entries = <<>>
    /\ dk_usable = NewDictUsable
    /\ next_id = 1
    /\ now = 0
    /\ req = EmptyBag

\* a response is sent as soon as the handler has ended
Sending == \E r \in InFlight : r.pc = "done"

\* spec.md sections 1 and 5: requests are served one at a time; the next
\* one comes in when no other is in flight
RequestAtATime == req = EmptyBag

\* the steps of each endpoint: a request coming in, and its handler's steps
Create(Creates, N) ==
    \/ /\ RequestAtATime
       /\ next_id <= N
       /\ \E input \in Creates : create_task_parse(input)
    \/ \E r \in InFlight : create_task(r)

Update(Patches, N) ==
    \/ RequestAtATime /\ \E task_id \in 1..N, p \in Patches : update_task_parse(task_id, p)
    \/ \E r \in InFlight : update_task(r)

Rules == \E r \in InFlight : apply_business_rules(r)

List(Filters) ==
    \/ RequestAtATime /\ \E f \in Filters : read_all_tasks_start(f)
    \/ \E r \in InFlight : read_all_tasks(r)

Get(N) ==
    \/ RequestAtATime /\ \E task_id \in 1..N : read_task_start(task_id)
    \/ \E r \in InFlight : read_task(r)

Delete(N) ==
    \/ RequestAtATime /\ \E task_id \in 1..N : delete_task_start(task_id)
    \/ \E r \in InFlight : delete_task(r)

DeleteAll ==
    \/ RequestAtATime /\ \E force \in BOOLEAN : delete_all_tasks_start(force)
    \/ \E r \in InFlight : delete_all_tasks(r)

Send == \E r \in InFlight : Respond(r)

\* every endpoint, over the given request bodies, at most N tasks ever
\* created and the clock running to T
Serve(Creates, Patches, Filters, N, T) ==
    \/ /\ ~Sending
       /\ \/ now < T /\ Tick
          \/ Create(Creates, N)
          \/ Update(Patches, N)
          \/ Rules
          \/ List(Filters)
          \/ Get(N)
          \/ Delete(N)
          \/ DeleteAll
    \/ Send

\* the store endpoints: status changes and the two deletes
StoreCreates == {CreateInput("a", URGENT, NONE, NONE)}
StorePatches == {[NoPatch EXCEPT !.status = s] : s \in {IN_PROGRESS, CANCELLED}}
StoreFilters == {Filter(NoneS, NoneS, o, 2) : o \in BOOLEAN}

Next == Serve(StoreCreates, StorePatches, StoreFilters, StoreTasks, StoreTime)

Spec == Init /\ [][Next]_vars

\* listing: filters, order and limit over records that updates have changed
ListCreates == {CreateInput("a", p, NONE, NONE) : p \in {UnsetS, URGENT}}
ListPatches == {[NoPatch EXCEPT !.status = NoneS]}
ListFilters ==
    {Filter(NoneS, NoneS, FALSE, 1), Filter(NoneS, NoneS, TRUE, 2),
     Filter(PENDING, URGENT, FALSE, 2)}

NextList == Serve(ListCreates, ListPatches, ListFilters, ListTasks, ListTime)

SpecList == Init /\ [][NextList]_vars

\* the guard on completed tasks: completion, and patches with every other
\* status, with null and with no status at all
GuardCreates == {CreateInput("a", URGENT, NONE, NONE)}
GuardPatches ==
    {[NoPatch EXCEPT !.title = "b"]}
        \cup {[NoPatch EXCEPT !.status = s] :
                 s \in {PENDING, IN_PROGRESS, COMPLETED, NoneS}}
GuardFilters == {Filter(NoneS, NoneS, o, 2) : o \in BOOLEAN}

NextGuard == Serve(GuardCreates, GuardPatches, GuardFilters, GuardTasks, GuardTime)

SpecGuard == Init /\ [][NextGuard]_vars

\* the completion rules: completion with and without hours, estimates
RulesCreates ==
    {CreateInput("a", UnsetS, NONE, NONE), CreateInput("a", UnsetS, 5, NONE),
     CreateInput("a", URGENT, NONE, NONE)}
RulesPatches ==
    {[NoPatch EXCEPT !.title = "b"],
     [NoPatch EXCEPT !.status = COMPLETED],
     [NoPatch EXCEPT !.status = COMPLETED, !.actual_hours = 0]}
RulesFilters == {Filter(NoneS, NoneS, o, 2) : o \in BOOLEAN}

NextRules == Serve(RulesCreates, RulesPatches, RulesFilters, RulesTasks, RulesTime)

SpecRules == Init /\ [][NextRules]_vars

\* what an update leaves alone: two urgent tasks with an estimate, patches
\* of one field each, one of them completing the task
FrameCreates == {CreateInput("a", URGENT, 5, NONE)}
FramePatches ==
    {[NoPatch EXCEPT !.title = "b"],
     [NoPatch EXCEPT !.status = COMPLETED]}
FrameFilters == {Filter(NoneS, NoneS, o, 2) : o \in BOOLEAN}

NextFrame == Serve(FrameCreates, FramePatches, FrameFilters, FrameTasks, FrameTime)

SpecFrame == Init /\ [][NextFrame]_vars

\* the overdue flag: due dates, the clock and the read paths
ClockCreates == {CreateInput("a", UnsetS, NONE, 1), CreateInput("a", URGENT, NONE, NONE)}
ClockPatches == {[NoPatch EXCEPT !.status = COMPLETED], [NoPatch EXCEPT !.title = "b"]}
ClockFilters == {Filter(NoneS, NoneS, o, 2) : o \in BOOLEAN}

NextClock == Serve(ClockCreates, ClockPatches, ClockFilters, ClockTasks, ClockTime)

SpecClock == Init /\ [][NextClock]_vars

\* the urgent rule: priorities, due dates cleared or left out, and the
\* listing that rewrites the flag of a stored task
UrgentCreates == {CreateInput("a", p, NONE, NONE) : p \in {UnsetS, URGENT}}
UrgentPatches == {[NoPatch EXCEPT !.priority = URGENT], [NoPatch EXCEPT !.due_date = NONE]}
UrgentFilters == {Filter(NoneS, NoneS, o, 2) : o \in BOOLEAN}

NextUrgent == Serve(UrgentCreates, UrgentPatches, UrgentFilters, UrgentTasks, UrgentTime)

SpecUrgent == Init /\ [][NextUrgent]_vars

\* ================================================================= claims
Min(a, b) == IF a < b THEN a ELSE b

\* the overdue condition as the data model states it
OverdueAt(t, time) == t.due_date # NONE /\ t.status # COMPLETED /\ time > t.due_date

\* this step is a step of the handler of request r, which leaves it as r2
Moves(r, r2) ==
    /\ r2 # r
    /\ r2.op = r.op /\ r2.t0 = r.t0 /\ r2.input = r.input
    /\ \/ req' = Swap(req, r, r2)
       \/ /\ r.pc \in {"line149", "line161", "line175"}
          /\ \E K \in {{r.id} \cap DOMAIN tasks_db, DOMAIN tasks_db} :
                 req' = Swap(Unlinked(K), r, r2)

\* ---- C1 (SpecGuard) -----------------------------------------------------
\* C1: a task whose stored status is completed never later has another
\* stored status while it remains in the store.
C1_CompletedStaysCompleted ==
    [][\A k \in DOMAIN tasks_db :
          (k \in DOMAIN tasks_db' /\ tasks_db[k].status = COMPLETED)
              => tasks_db'[k].status = COMPLETED]_vars

\* an update to pending was refused on a completed task, which is still
\* stored as completed
C1_Witness ==
    \E r \in InFlight :
        /\ r.op = "update" /\ r.pc = "done" /\ r.code = 400
        /\ r.input.status = PENDING
        /\ r.id \in DOMAIN tasks_db
        /\ tasks_db[r.id].status = COMPLETED

\* ---- C2 (SpecGuard) -----------------------------------------------------
\* C2: an update of a task stored as completed when the request came in,
\* with a valid patch whose status is not completed (no status and null
\* included), ends with 400 and leaves the store as it was.
C2_CompletedRejectsPatch ==
    \A r \in InFlight :
        (/\ r.op = "update" /\ r.pc = "done" /\ r.code # 422
         /\ r.id \in DOMAIN r.before
         /\ r.before[r.id].status = COMPLETED
         /\ r.input.status # COMPLETED)
            => (r.code = 400 /\ tasks_db = r.before)

\* a patch to in_progress was refused on a completed task
C2_Witness ==
    \E r \in InFlight :
        /\ r.op = "update" /\ r.pc = "done" /\ r.code = 400
        /\ r.input.status = IN_PROGRESS
        /\ r.id \in DOMAIN r.before
        /\ r.before[r.id].status = COMPLETED
        /\ tasks_db = r.before

\* ---- C3 (SpecRules) -----------------------------------------------------
\* C3: completing a task when neither the patch nor the stored record has
\* actual_hours yields actual_hours = stored estimated_hours if present,
\* else 1.0.
C3_CompletionFillsActualHours ==
    [][\A r \in InFlight : \A r2 \in BagToSet(req') :
          (/\ r.op = "update" /\ r.pc = "line149" /\ Moves(r, r2)
           /\ r.id \in DOMAIN tasks_db
           /\ r.input.status = COMPLETED
           /\ tasks_db[r.id].status # COMPLETED
           /\ r.input.actual_hours \in {UNSET, NONE}
           /\ tasks_db[r.id].actual_hours = NONE)
              => tasks_db'[r.id].actual_hours =
                     IF tasks_db[r.id].estimated_hours # NONE
                     THEN tasks_db[r.id].estimated_hours
                     ELSE DefaultHours]_vars

\* ---- C10 (SpecRules) ----------------------------------------------------
\* C10: an update that sets status to completed and supplies actual_hours
\* (0 included) stores the supplied value.
C10_SuppliedActualHoursKept ==
    [][\A r \in InFlight : \A r2 \in BagToSet(req') :
          (/\ r.op = "update" /\ r.pc = "line149" /\ Moves(r, r2)
           /\ r.input.status = COMPLETED
           /\ r.input.actual_hours \notin {UNSET, NONE})
              => tasks_db'[r.id].actual_hours = r.input.actual_hours]_vars

\* ---- C8 (SpecFrame) -----------------------------------------------------
\* C8: an update that succeeds leaves the fields absent from the patch at
\* the values stored when the request came in, apart from auto-filled
\* actual_hours and the due_date assigned to an urgent task; id, created_at,
\* the key and every other record stay as they were.
C8_UpdateFrame ==
    \A r \in InFlight :
        (r.op = "update" /\ r.pc = "done" /\ r.code = 200)
            => /\ DOMAIN tasks_db = DOMAIN r.before
               /\ \A k \in DOMAIN r.before \ {r.id} : tasks_db[k] = r.before[k]
               /\ r.id \in DOMAIN r.before
               /\ LET p == r.input
                      old == r.before[r.id]
                      new == tasks_db[r.id]
                  IN  /\ new.id = r.id /\ old.id = r.id
                      /\ new.created_at = old.created_at
                      /\ \A f \in PatchFieldsS : p[f] = UnsetS => new[f] = old[f]
                      /\ p.estimated_hours = UNSET
                             => new.estimated_hours = old.estimated_hours
                      /\ p.due_date = UNSET
                             => \/ new.due_date = old.due_date
                                \/ /\ old.due_date = NONE
                                   /\ new.priority = URGENT
                                   /\ new.due_date - Day \in r.t0..now
                      /\ p.actual_hours = UNSET
                             => \/ new.actual_hours = old.actual_hours
                                \/ /\ new.status = COMPLETED
                                   /\ new.actual_hours
                                         \in {old.estimated_hours, new.estimated_hours}

\* a title-only patch on one of two tasks, after the clock has moved: the
\* priority, the due date and the estimate stored before are kept, and the
\* other task is as it was
C8_Witness ==
    \E r \in InFlight :
        /\ r.op = "update" /\ r.pc = "done" /\ r.code = 200
        /\ r.input = [NoPatch EXCEPT !.title = "b"]
        /\ DOMAIN tasks_db = {1, 2}
        /\ r.before[r.id].title = "a"
        /\ tasks_db[r.id].title = "b"
        /\ tasks_db[r.id].priority = URGENT
        /\ tasks_db[r.id].due_date = Day
        /\ tasks_db[r.id].estimated_hours = 5
        /\ tasks_db[r.id].updated_at > r.before[r.id].updated_at

\* ---- C4 (Spec) ----------------------------------------------------------
\* C4: delete of a task stored when the request came in fails with 400 and
\* changes nothing exactly when its stored status is in_progress; otherwise
\* it succeeds and removes that record and no other.
C4_DeleteBlockedIffInProgress ==
    \A r \in InFlight :
        (r.op = "delete" /\ r.pc = "done" /\ r.id \in DOMAIN r.before)
            => IF r.before[r.id].status = IN_PROGRESS
               THEN r.code = 400 /\ tasks_db = r.before
               ELSE /\ r.code = 200
                    /\ DOMAIN tasks_db = DOMAIN r.before \ {r.id}
                    /\ \A k \in DOMAIN tasks_db : tasks_db[k] = r.before[k]

\* a cancelled task was deleted while another task, in progress, stays
C4_Witness ==
    \E r \in InFlight :
        /\ r.op = "delete" /\ r.pc = "done" /\ r.code = 200
        /\ r.before[r.id].status = CANCELLED
        /\ r.id \notin DOMAIN tasks_db
        /\ \E k \in DOMAIN tasks_db : tasks_db[k].status = IN_PROGRESS

\* ---- C5 (Spec) ----------------------------------------------------------
\* C5: deleteAll without force and with an in_progress task stored when the
\* request came in fails with 400 and leaves the store as it was; otherwise
\* the store becomes empty and the reported count is the number of records
\* it held.
C5_DeleteAllAllOrNothing ==
    \A r \in InFlight :
        (r.op = "delete_all" /\ r.pc = "done")
            => IF ~r.input.force
                  /\ \E k \in DOMAIN r.before : r.before[k].status = IN_PROGRESS
               THEN r.code = 400 /\ tasks_db = r.before
               ELSE /\ r.code = 200
                    /\ DOMAIN tasks_db = {}
                    /\ r.count = Cardinality(DOMAIN r.before)

\* an unforced bulk delete was refused over two tasks, the second of them
\* in progress, and both are still stored
C5_Witness ==
    \E r \in InFlight :
        /\ r.op = "delete_all" /\ r.pc = "done" /\ r.code = 400
        /\ ~r.input.force
        /\ DOMAIN tasks_db = {1, 2}
        /\ tasks_db[1].status # IN_PROGRESS
        /\ tasks_db[2].status = IN_PROGRESS

\* ---- C6 (SpecClock) -----------------------------------------------------
\* C6: every record returned by create, get, list or update carries
\* is_overdue = (due_date set, status not completed, now > due_date), with
\* now a time of the call: between the request coming in and its response.
C6_ReturnedOverdueIsFresh ==
    \A r \in InFlight :
        r.pc = "done"
            => \A i \in 1..Len(r.out) :
                  \E t \in r.t0..now : r.out[i].is_overdue = OverdueAt(r.out[i], t)

\* a pending task read after its due date: returned overdue, stored flag stale
C6_Witness ==
    \E r \in InFlight :
        /\ r.op = "get" /\ r.pc = "done" /\ r.code = 200
        /\ r.out[1].status = PENDING
        /\ r.out[1].due_date < r.t0
        /\ r.out[1].is_overdue
        /\ r.id \in DOMAIN tasks_db
        /\ ~tasks_db[r.id].is_overdue

\* ---- C7 (SpecList) ------------------------------------------------------
SortsBefore(a, b) ==
    \/ a.priority = URGENT /\ b.priority # URGENT
    \/ (a.priority = URGENT) = (b.priority = URGENT) /\ a.created_at > b.created_at

Matches(t, f) ==
    /\ f.status # NoneS => t.status = f.status
    /\ f.priority # NoneS => t.priority = f.priority
    /\ f.overdue_only => OverdueAt(t, now)

ListResultOk(out, f) ==
    LET M == {k \in DOMAIN tasks_db : Matches(tasks_db[k], f)}
        ids == {out[i].id : i \in 1..Len(out)}
    IN  /\ Len(out) = Min(f.limit, Cardinality(M))
        /\ Cardinality(ids) = Len(out)
        /\ ids \subseteq M
        /\ \A i \in 1..Len(out) :
              out[i] = [tasks_db[out[i].id] EXCEPT
                           !.is_overdue = OverdueAt(tasks_db[out[i].id], now)]
        /\ \A i, j \in 1..Len(out) : i < j => ~SortsBefore(out[j], out[i])
        /\ \A k \in M \ ids : \A i \in 1..Len(out) : ~SortsBefore(tasks_db[k], out[i])

\* C7: list returns exactly the stored tasks matching the filters, urgent
\* first and newest first within each group, cut to the first `limit`.
C7_ListReturnsMatchingSorted ==
    \A r \in InFlight :
        (r.op = "list" /\ r.pc = "done")
            => (r.code = 200 /\ ListResultOk(r.out, r.input))

====
